---- MODULE Spec2Model ----
(***************************************************************************)
(* The FM index and the FMD index of src/data_structures/fmindex.rs:       *)
(* backward search, bidirectional interval extension and the enumeration   *)
(* of supermaximal exact matches.  Offsets are 0-based as in the source:   *)
(* the suffix array and the BWT are functions on 0..n-1.                   *)
(***************************************************************************)
EXTENDS Integers, Sequences, FiniteSets

(* text, pos, bwt, less_tab, occ_tab: the indexed text, its suffix array,  *)
(* its BWT and the two tables of FMIndex.  interval_buffer: the buffer of  *)
(* FMDIndex.  pc, pattern and the rest: the call in progress and its       *)
(* locals.  fresh_buffer and fresh_interval follow the same extension      *)
(* calls on a second instance whose buffer starts as FMDIndex::new builds  *)
(* it; reused tells that the first instance's buffer had been written      *)
(* before the current sequence of calls began; recorded_at lists, for each *)
(* entry of matches, the position k at which smems pushed it.              *)
VARIABLES text, pos, bwt, less_tab, occ_tab, interval_buffer, fresh_buffer, pc, pattern, i,
          l, r, m, interval, fresh_interval, reused, curr, prev, matches,
          recorded_at, j, k, s, idx

vars == <<text, pos, bwt, less_tab, occ_tab, interval_buffer, fresh_buffer, pc, pattern, i,
          l, r, m, interval, fresh_interval, reused, curr, prev, matches,
          recorded_at, j, k, s, idx>>

(***************************************************************************)
(* Symbols are their byte values, which order the suffix array and the     *)
(* boundary table.                                                         *)
(***************************************************************************)
SENTINEL == 36
chA == 65
chC == 67
chG == 71
chN == 78
chT == 84

Sigma == {chA, chC, chG, chT, chN}
Dna == {chA, chC, chG, chT}
SYMBOLS == <<SENTINEL, chA, chC, chG, chT, chN>>
REV_ORDER == <<chT, chG, chC, chA, chN>>

(* Bounds of the model. *)
UsizeBits == 16
SearchTextLen == 3
SearchPatLen == 3
ExtTextLen == 3
ExtPatLen == 3
SmemTextLen == 3
SmemPatLen == 3
ShortTextLen == 2
ShortPatLen == 2

UsizeModulus == 2 ^ UsizeBits
Wrap(x) == x % UsizeModulus

Words(S, n) == UNION {[1..q -> S] : q \in 1..n}
At(t, p) == t[p + 1]

(***************************************************************************)
(* The index tables the code consumes.                                     *)
(***************************************************************************)
SuffixLess(t, p, q) ==
    LET n == Len(t) IN
    \E d \in 0..n :
        /\ \A e \in 0..(d - 1) :
              p + e < n /\ q + e < n /\ At(t, p + e) = At(t, q + e)
        /\ \/ p + d = n /\ q + d < n
           \/ p + d < n /\ q + d < n /\ At(t, p + d) < At(t, q + d)

suffix_array(t) ==
    LET n == Len(t) IN
    [x \in 0..(n - 1) |->
        CHOOSE p \in 0..(n - 1) :
            Cardinality({q \in 0..(n - 1) : SuffixLess(t, q, p)}) = x]

bwt_of(t, sa) ==
    [x \in 0..(Len(t) - 1) |->
        IF sa[x] > 0 THEN At(t, sa[x] - 1) ELSE SENTINEL]

comp(a) ==
    CASE a = chA -> chT
      [] a = chT -> chA
      [] a = chC -> chG
      [] a = chG -> chC
      [] OTHER -> a

revcomp(sq) == [q \in 1..Len(sq) |-> comp(sq[Len(sq) + 1 - q])]

BwtLen(b) == Cardinality(DOMAIN b)

LessKeys == {SYMBOLS[q] : q \in 1..Len(SYMBOLS)} \cup {SYMBOLS[q] + 1 : q \in 1..Len(SYMBOLS)}
less_of(b) == [a \in LessKeys |-> Cardinality({x \in DOMAIN b : b[x] < a})]
occ_of(b) ==
    [x \in DOMAIN b |->
        [a \in {SYMBOLS[q] : q \in 1..Len(SYMBOLS)} |->
            Cardinality({y \in DOMAIN b : y <= x /\ b[y] = a})]]

(* Total on the integers: a caller that would index outside a table is   *)
(* found by search_faults / ext_faults, after which the value is not used. *)
less(a) == IF a \in DOMAIN less_tab THEN less_tab[a] ELSE 0
occ(x, a) == IF x \in DOMAIN occ_tab THEN occ_tab[x][a] ELSE 0

(***************************************************************************)
(* FMIndex::backward_search, one pattern symbol per step.  A lookup        *)
(* outside a table panics; an unsigned subtraction wraps.                  *)
(***************************************************************************)
search_init_len == [l |-> 0, r |-> BwtLen(bwt)]

search_init == [l |-> 0, r |-> Wrap(BwtLen(bwt) - 1)]

search_faults(lr, a) ==
    \/ a \notin DOMAIN less_tab
    \/ lr.l > 0 /\ (lr.l - 1) \notin DOMAIN bwt
    \/ lr.r \notin DOMAIN bwt

search_step_upper(lr, a) ==
    LET ls == less(a) IN
    [l |-> ls + occ(lr.l, a),
     r |-> Wrap(ls + occ(lr.r, a) - 1)]

search_step(lr, a) ==
    LET ls == less(a) IN
    [l |-> ls + (IF lr.l > 0 THEN occ(lr.l - 1, a) ELSE 0),
     r |-> Wrap(ls + occ(lr.r, a) - 1)]

RECURSIVE search_from(_, _, _)
search_from(pat, cnt, lr) ==
    IF cnt = 0 THEN lr
    ELSE search_from(pat, cnt - 1, search_step(lr, pat[cnt]))

backward_search(pat) == search_from(pat, Len(pat), search_init)

(***************************************************************************)
(* BiInterval and the FMDIndex buffer.                                     *)
(***************************************************************************)
BiInterval(lo, lorev, sz, msz) ==
    [lower |-> lo, lower_rev |-> lorev, size |-> sz, match_size |-> msz]

NoInterval == BiInterval(0, 0, 0, 0)
NewBuffer == [b \in {SYMBOLS[q] : q \in 1..6} |-> NoInterval]

swapped(iv) == BiInterval(iv.lower_rev, iv.lower, iv.size, iv.match_size)

init_interval(pat, pivot) ==
    LET a == At(pat, pivot)
        lower == less(a)
    IN  BiInterval(lower, less(comp(a)), Wrap(less(a + 1) - lower), 1)

(* The first loop leaving the entry of a symbol that does not extend the   *)
(* interval as it was.                                                      *)
fill_lower_size_skip_empty(buf, iv) ==
    [c \in DOMAIN buf |->
        LET o == occ(Wrap(iv.lower - 1), c) IN
        IF occ(Wrap(iv.lower + iv.size - 1), c) = o THEN buf[c]
        ELSE [buf[c] EXCEPT
                !.lower = less(c) + o,
                !.size = Wrap(occ(Wrap(iv.lower + iv.size - 1), c) - o)]]

(* The first loop of backward_ext: lower and size of every symbol's entry. *)
fill_lower_size(buf, iv) ==
    [c \in DOMAIN buf |->
        LET o == occ(Wrap(iv.lower - 1), c) IN
        [buf[c] EXCEPT
            !.lower = less(c) + o,
            !.size = Wrap(occ(Wrap(iv.lower + iv.size - 1), c) - o)]]

(* The second loop: lower_rev as a running sum in the order of REV_ORDER. *)
RECURSIVE fill_lower_rev(_, _, _)
fill_lower_rev(buf, q, last) ==
    IF q > Len(REV_ORDER) THEN buf
    ELSE LET c == REV_ORDER[q] IN
         fill_lower_rev(
             [buf EXCEPT ![c].lower_rev = buf[last].lower_rev + buf[last].size],
             q + 1, c)

ext_faults(iv) ==
    \/ Wrap(iv.lower - 1) \notin DOMAIN bwt
    \/ Wrap(iv.lower + iv.size - 1) \notin DOMAIN bwt

(* backward_ext returns the interval and leaves the buffer it has written. *)
backward_ext(buf, iv, a) ==
    LET buf1 == fill_lower_size(buf, iv)
        buf2 == [buf1 EXCEPT ![SENTINEL].lower_rev = iv.lower_rev]
        buf3 == fill_lower_rev(buf2, 1, SENTINEL)
    IN  [ret |-> [buf3[a] EXCEPT !.match_size = iv.match_size + 1],
         buf |-> buf3]

forward_ext(buf, iv, a) ==
    LET res == backward_ext(buf, swapped(iv), comp(a)) IN
    [ret |-> swapped(res.ret), buf |-> res.buf]

(***************************************************************************)
(* Specification of backward search over a sentinel-terminated text.       *)
(***************************************************************************)
DocText == <<chG, chC, chC, chT, chT, chA, chA, chC, chA, chT, chT, chA,
             chT, chT, chA, chC, chG, chC, chC, chT, chA, SENTINEL>>
DocPattern == <<chT, chT, chA>>

SearchTexts == {w \o <<SENTINEL>> : w \in Words(Dna, SearchTextLen)} \cup {DocText}

index_vars == <<text, pos, bwt, less_tab, occ_tab>>
search_vars == <<l, r, m>>
ext_vars == <<interval_buffer, fresh_buffer, interval, fresh_interval, reused>>
smems_vars == <<curr, prev, matches, recorded_at, i, j, k, s, idx>>

NoSearch == l = 0 /\ r = 0 /\ m = 0

NoExt ==
    /\ interval_buffer = NewBuffer /\ fresh_buffer = NewBuffer
    /\ interval = NoInterval /\ fresh_interval = NoInterval
    /\ reused = FALSE

NoSmems ==
    /\ curr = <<>> /\ prev = <<>> /\ matches = <<>> /\ recorded_at = <<>>
    /\ i = 0 /\ j = 0 /\ k = 0 /\ s = 0 /\ idx = 0

InitSearch ==
    /\ text \in SearchTexts
    /\ pos = suffix_array(text)
    /\ bwt = bwt_of(text, pos)
    /\ less_tab = less_of(bwt)
    /\ occ_tab = occ_of(bwt)
    /\ pc = "idle"
    /\ pattern = <<>>
    /\ NoSearch /\ NoExt /\ NoSmems

SearchCall ==
    /\ pc = "idle"
    /\ \E p \in Words(Sigma, SearchPatLen) : pattern' = p /\ m' = Len(p)
    /\ l' = search_init.l
    /\ r' = search_init.r
    /\ pc' = "search"
    /\ UNCHANGED <<index_vars, ext_vars, smems_vars>>

SearchStep ==
    /\ pc = "search" /\ m > 0
    /\ IF search_faults([l |-> l, r |-> r], pattern[m])
       THEN pc' = "panic" /\ UNCHANGED <<l, r, m>>
       ELSE LET lr == search_step([l |-> l, r |-> r], pattern[m]) IN
            /\ l' = lr.l /\ r' = lr.r /\ m' = m - 1
            /\ pc' = "search"
    /\ UNCHANGED <<index_vars, pattern, ext_vars, smems_vars>>

SearchReturn ==
    /\ pc = "search" /\ m = 0
    /\ pc' = "returned"
    /\ UNCHANGED <<index_vars, pattern, search_vars, ext_vars, smems_vars>>

NextSearch == SearchCall \/ SearchStep \/ SearchReturn

SpecSearch == InitSearch /\ [][NextSearch]_vars

(***************************************************************************)
(* What occurs where, read off the text itself.                            *)
(***************************************************************************)
OccSet(t, p) ==
    {q \in 0..(Len(t) - Len(p)) : \A e \in 1..Len(p) : At(t, q + e - 1) = p[e]}

SaSlice(sa, from, sz) == {sa[x] : x \in {y \in DOMAIN sa : from <= y /\ y < from + sz}}

Absent(t, a) == \A q \in 1..Len(t) : t[q] # a

\* C1: backward_search returns (l, r) such that the suffix-array entries at
\* l..r inclusive are exactly the start offsets of the pattern in the text,
\* l > r exactly when the pattern does not occur, and the documented example
\* (GCCTTAACATTATTACGCCTA$, TTA) gives (19, 21).
C1_SearchExact ==
    pc = "returned" =>
        /\ l <= r => (l..r) \subseteq DOMAIN pos
        /\ {pos[x] : x \in l..r} = OccSet(text, pattern)
        /\ (l <= r) => r - l + 1 = Cardinality(OccSet(text, pattern))
        /\ (l > r) <=> (OccSet(text, pattern) = {})
        /\ (text = DocText /\ pattern = DocPattern) => (l = 19 /\ r = 21)

C1_Witness ==
    /\ pc = "returned" /\ text = DocText /\ pattern = DocPattern
    /\ l = 19 /\ r = 21
    /\ OccSet(text, pattern) = {3, 9, 12}

\* C6: a pattern with a symbol absent from the text makes backward_search
\* return an empty interval (l > r); no step underflows or looks up outside
\* the tables (no panic, l and r stay within 0..n); and an interval that has
\* become empty stays empty while the remaining symbols are consumed.
C6_AbsentSymbol ==
    /\ [](pc # "panic")
    /\ [](pc \in {"search", "returned"} =>
            /\ l \in 0..BwtLen(bwt) /\ r \in 0..(BwtLen(bwt) - 1)
            /\ (\E q \in (m + 1)..Len(pattern) : Absent(text, pattern[q])) => l > r)
    /\ [][(pc = "search" /\ l > r) => (l' > r')]_vars

C6_Witness ==
    /\ pc = "search" /\ m = 1 /\ Len(pattern) = 3 /\ l > r
    /\ Absent(text, pattern[3])
    /\ ~Absent(text, pattern[2]) /\ ~Absent(text, pattern[1])

(***************************************************************************)
(* Specification of interval extension on an FMDIndex over the text        *)
(* w $ revcomp(w) $.  Every call runs on the instance's buffer as earlier  *)
(* calls left it and, beside it, on a buffer as FMDIndex::new builds it.   *)
(***************************************************************************)
BiText(w) == w \o <<SENTINEL>> \o revcomp(w) \o <<SENTINEL>>

ExtTexts == {BiText(w) : w \in Words(Sigma, ExtTextLen)}

InitExt ==
    /\ text \in ExtTexts
    /\ pos = suffix_array(text)
    /\ bwt = bwt_of(text, pos)
    /\ less_tab = less_of(bwt)
    /\ occ_tab = occ_of(bwt)
    /\ pc = "idle"
    /\ pattern = <<>>
    /\ NoSearch /\ NoExt /\ NoSmems

ExtInit ==
    /\ pc \in {"idle", "ext_end"}
    /\ \E a \in Sigma :
          /\ pattern' = <<a>>
          /\ interval' = init_interval(<<a>>, 0)
          /\ fresh_interval' = init_interval(<<a>>, 0)
    /\ fresh_buffer' = NewBuffer
    /\ reused' = (interval_buffer # NewBuffer)
    /\ pc' = "ext"
    /\ UNCHANGED <<index_vars, interval_buffer, search_vars, smems_vars>>

ExtApply(arg, res, fres, pat, nextpc) ==
    /\ IF ext_faults(arg)
       THEN /\ pc' = "panic"
            /\ UNCHANGED <<pattern, interval, fresh_interval,
                           interval_buffer, fresh_buffer>>
       ELSE /\ pc' = nextpc
            /\ pattern' = pat
            /\ interval' = res.ret
            /\ interval_buffer' = res.buf
            /\ fresh_interval' = fres.ret
            /\ fresh_buffer' = fres.buf
    /\ UNCHANGED <<index_vars, reused, search_vars, smems_vars>>

ExtBackward ==
    /\ pc = "ext" /\ interval.size > 0 /\ Len(pattern) < ExtPatLen
    /\ \E a \in Sigma :
          ExtApply(interval,
                   backward_ext(interval_buffer, interval, a),
                   backward_ext(fresh_buffer, fresh_interval, a),
                   <<a>> \o pattern, "ext")

ExtForward ==
    /\ pc = "ext" /\ interval.size > 0 /\ Len(pattern) < ExtPatLen
    /\ \E a \in Sigma :
          ExtApply(swapped(interval),
                   forward_ext(interval_buffer, interval, a),
                   forward_ext(fresh_buffer, fresh_interval, a),
                   pattern \o <<a>>, "ext")

ExtSentinel ==
    /\ pc = "ext" /\ interval.size > 0
    /\ ExtApply(interval,
                backward_ext(interval_buffer, interval, SENTINEL),
                backward_ext(fresh_buffer, fresh_interval, SENTINEL),
                <<SENTINEL>> \o pattern, "ext_end")

NextExt == ExtInit \/ ExtBackward \/ ExtForward \/ ExtSentinel

SpecExt == InitExt /\ [][NextExt]_vars

(***************************************************************************)
(* Specification of FMDIndex::smems, one extension call per step.          *)
(* pc: "fwd" is the forward sweep before its next forward_ext, "fwd_end"   *)
(* the statements after it, "bwd" the head of the backward sweep's body,   *)
(* "bwd_ext" its inner loop before the next backward_ext (idx is the entry *)
(* of prev that prev.iter().rev() yields next), "done" the return.         *)
(***************************************************************************)
SmemsInit(maxlen) ==
    /\ text \in {BiText(w) : w \in Words(Sigma, maxlen)}
    /\ pos = suffix_array(text)
    /\ bwt = bwt_of(text, pos)
    /\ less_tab = less_of(bwt)
    /\ occ_tab = occ_of(bwt)
    /\ pc = "idle"
    /\ pattern = <<>>
    /\ NoSearch /\ NoExt /\ NoSmems

smems_untouched == <<index_vars, search_vars, fresh_buffer, fresh_interval, reused>>

(* The condition under which the backward sweep records a match, without  *)
(* the test against the position of the last recorded match.              *)
record_match_any_k(ret) ==
    (ret.size = 0 \/ k = -1) /\ curr = <<>>

record_match(ret) ==
    (ret.size = 0 \/ k = -1) /\ curr = <<>> /\ k < j

SmemsEnter(maxlen) ==
    /\ pc = "idle"
    /\ \E p \in Words(Sigma, maxlen) : \E pivot \in 0..(Len(p) - 1) :
          /\ pattern' = p
          /\ i' = pivot
          /\ interval' = init_interval(p, pivot)
          /\ idx' = pivot + 1
    /\ curr' = <<>> /\ prev' = <<>> /\ matches' = <<>> /\ recorded_at' = <<>>
    /\ pc' = "fwd"
    /\ UNCHANGED <<smems_untouched, interval_buffer, j, k, s>>

FwdStep ==
    /\ pc = "fwd" /\ idx < Len(pattern)
    /\ IF ext_faults(swapped(interval))
       THEN /\ pc' = "panic"
            /\ UNCHANGED <<interval, interval_buffer, curr, idx>>
       ELSE LET res == forward_ext(interval_buffer, interval, At(pattern, idx)) IN
            /\ interval_buffer' = res.buf
            /\ curr' = IF interval.size # res.ret.size
                          THEN Append(curr, interval) ELSE curr
            /\ IF res.ret.size = 0
                  THEN pc' = "fwd_end" /\ UNCHANGED <<interval, idx>>
                  ELSE pc' = "fwd" /\ interval' = res.ret /\ idx' = idx + 1
    /\ UNCHANGED <<smems_untouched, pattern, i, prev, matches, recorded_at,
                   j, k, s>>

FwdEnd ==
    /\ \/ pc = "fwd_end"
       \/ pc = "fwd" /\ idx >= Len(pattern)
    /\ prev' = Append(curr, interval)
    /\ curr' = prev
    /\ j' = Len(pattern)
    /\ k' = i - 1
    /\ pc' = "bwd"
    /\ UNCHANGED <<smems_untouched, pattern, i, interval, interval_buffer,
                   matches, recorded_at, s, idx>>

BwdBegin ==
    /\ pc = "bwd"
    /\ curr' = <<>>
    /\ s' = Wrap(-1)
    /\ idx' = Len(prev)
    /\ pc' = "bwd_ext"
    /\ UNCHANGED <<smems_untouched, pattern, i, interval, interval_buffer,
                   prev, matches, recorded_at, j, k>>

BwdExt ==
    /\ pc = "bwd_ext" /\ idx >= 1
    /\ IF ext_faults(prev[idx])
       THEN /\ pc' = "panic"
            /\ UNCHANGED <<interval_buffer, curr, matches, recorded_at, j, s,
                           idx>>
       ELSE LET a == IF k = -1 THEN SENTINEL ELSE At(pattern, k)
                res == backward_ext(interval_buffer, prev[idx], a)
                record == record_match(res.ret)
                keep == res.ret.size # 0 /\ res.ret.size # s
            IN  /\ interval_buffer' = res.buf
                /\ j' = IF record THEN k ELSE j
                /\ matches' = IF record THEN Append(matches, prev[idx])
                                         ELSE matches
                /\ recorded_at' = IF record THEN Append(recorded_at, k)
                                             ELSE recorded_at
                /\ s' = IF keep THEN res.ret.size ELSE s
                /\ curr' = IF keep THEN Append(curr, res.ret) ELSE curr
                /\ idx' = idx - 1
                /\ pc' = "bwd_ext"
    /\ UNCHANGED <<smems_untouched, pattern, i, interval, prev, k>>

BwdEnd ==
    /\ pc = "bwd_ext" /\ idx = 0
    /\ IF curr = <<>>
       THEN pc' = "done" /\ UNCHANGED <<curr, prev, k>>
       ELSE /\ prev' = curr
            /\ curr' = prev
            /\ IF k = -1 THEN pc' = "done" /\ UNCHANGED k
                          ELSE pc' = "bwd" /\ k' = k - 1
    /\ UNCHANGED <<smems_untouched, pattern, i, interval, interval_buffer,
                   matches, recorded_at, j, s, idx>>

InitSmems == SmemsInit(SmemTextLen)
SmemsCall == SmemsEnter(SmemPatLen)

NextSmems == SmemsCall \/ FwdStep \/ FwdEnd \/ BwdBegin \/ BwdExt \/ BwdEnd

SpecSmems == InitSmems /\ [][NextSmems]_vars

(* The same calls over shorter texts and patterns. *)
InitSmemsShort == SmemsInit(ShortTextLen)
SmemsCallShort == SmemsEnter(ShortPatLen)

NextSmemsShort ==
    SmemsCallShort \/ FwdStep \/ FwdEnd \/ BwdBegin \/ BwdExt \/ BwdEnd

SpecSmemsShort == InitSmemsShort /\ [][NextSmemsShort]_vars

\* C4: strand symmetry: a non-empty interval built by init_interval and
\* extension steps that spell pattern P has size = number of occurrences of P,
\* and the suffix-array slice [lower_rev, lower_rev + size) is exactly the set
\* of positions of the reverse complement of P.
C4_StrandSymmetry ==
    (pc = "ext" /\ interval.size > 0) =>
        /\ interval.size = Cardinality(OccSet(text, pattern))
        /\ SaSlice(pos, interval.lower_rev, interval.size)
              = OccSet(text, revcomp(pattern))

\* C5: an interval built by init_interval and forward/backward extensions
\* spelling Q has match_size = |Q|; when non-empty its lower and size are
\* those of backward_search(Q); when Q does not occur its size is 0.
C5_ExtAgreesSearch ==
    pc = "ext" =>
        /\ interval.match_size = Len(pattern)
        /\ interval.size > 0 =>
              /\ interval.lower = backward_search(pattern).l
              /\ interval.size
                    = backward_search(pattern).r - backward_search(pattern).l + 1
        /\ OccSet(text, pattern) = {} => interval.size = 0

\* C7: the interval an extension call returns does not depend on what earlier
\* calls left in interval_buffer: it equals the interval the same call
\* sequence returns on a buffer as FMDIndex::new builds it.
C7_BufferIndependent ==
    pc \in {"ext", "ext_end"} => interval = fresh_interval

C7_Witness ==
    /\ pc = "ext" /\ reused /\ Len(pattern) = 2
    /\ interval.size > 0 /\ interval = fresh_interval
    /\ interval.lower_rev # interval.lower

(***************************************************************************)
(* Supermaximal exact matches, read off the pattern and the text.          *)
(***************************************************************************)
Sub(p, from, to) == [q \in 1..(to - from + 1) |-> p[from + q]]
Occurs(w) == OccSet(text, w) # {}

IsSmem(from, to) ==
    /\ from <= i /\ i <= to
    /\ Occurs(Sub(pattern, from, to))
    /\ \A f2 \in 0..from : \A t2 \in to..(Len(pattern) - 1) :
          (f2 # from \/ t2 # to) => ~Occurs(Sub(pattern, f2, t2))

MatchStart(q) == recorded_at[q] + 1
MatchEnd(q) == recorded_at[q] + matches[q].match_size

\* C2: SMEM completeness: smems(pattern, i) holds exactly one interval for
\* every supermaximal exact match pattern[from..to] covering i, with its
\* match_size and its forward and reverse-complement occurrence positions.
C2_SmemComplete ==
    pc = "done" =>
        \A from \in 0..i : \A to \in i..(Len(pattern) - 1) :
            IsSmem(from, to) =>
                Cardinality({q \in 1..Len(matches) :
                    /\ MatchStart(q) = from
                    /\ matches[q].match_size = to - from + 1
                    /\ SaSlice(pos, matches[q].lower, matches[q].size)
                          = OccSet(text, Sub(pattern, from, to))
                    /\ SaSlice(pos, matches[q].lower_rev, matches[q].size)
                          = OccSet(text, revcomp(Sub(pattern, from, to)))}) = 1

\* C3: SMEM soundness: every returned interval denotes a substring
\* pattern[from..to] covering i that occurs (size >= 1) and cannot be extended
\* by the adjacent pattern symbol on either side; no returned match is
\* contained in another, no two denote the same substring, and at most one is
\* recorded per backward position.
C3_SmemSound ==
    pc = "done" =>
        /\ \A q \in 1..Len(matches) :
              /\ MatchStart(q) <= i /\ i <= MatchEnd(q)
              /\ MatchEnd(q) <= Len(pattern) - 1
              /\ matches[q].size >= 1
              /\ SaSlice(pos, matches[q].lower, matches[q].size)
                    = OccSet(text, Sub(pattern, MatchStart(q), MatchEnd(q)))
              /\ matches[q].size
                    = Cardinality(OccSet(text, Sub(pattern, MatchStart(q), MatchEnd(q))))
              /\ MatchStart(q) > 0 =>
                    ~Occurs(Sub(pattern, MatchStart(q) - 1, MatchEnd(q)))
              /\ MatchEnd(q) < Len(pattern) - 1 =>
                    ~Occurs(Sub(pattern, MatchStart(q), MatchEnd(q) + 1))
        /\ \A q1, q2 \in 1..Len(matches) :
              q1 # q2 =>
                /\ recorded_at[q1] # recorded_at[q2]
                /\ ~(MatchStart(q1) <= MatchStart(q2) /\ MatchEnd(q2) <= MatchEnd(q1))

\* C8: at every position k of the backward sweep the candidates are extended
\* longest match first: in the order prev.iter().rev() yields them, match_size
\* does not increase and size does not decrease.
C8_LongestFirst ==
    pc = "bwd_ext" =>
        \A q1, q2 \in 1..Len(prev) :
            q1 > q2 =>
                /\ prev[q1].match_size >= prev[q2].match_size
                /\ prev[q1].size <= prev[q2].size

\* C9: every interval smems passes to forward_ext or backward_ext has
\* size >= 1, and the lower bound the extension decrements is >= 1.
C9_NoEmptyExt ==
    /\ (pc = "fwd" /\ idx < Len(pattern)) =>
          (interval.size >= 1 /\ swapped(interval).lower >= 1)
    /\ (pc = "bwd_ext" /\ idx >= 1) =>
          (prev[idx].size >= 1 /\ prev[idx].lower >= 1)

EdgeCase ==
    /\ Occurs(<<At(pattern, i)>>)
    /\ \/ i = Len(pattern) - 1
       \/ i < Len(pattern) - 1 /\ ~Occurs(Sub(pattern, i, i + 1))

LongestStart ==
    CHOOSE from \in 0..i :
        /\ Occurs(Sub(pattern, from, i))
        /\ \A f2 \in 0..(from - 1) : ~Occurs(Sub(pattern, f2, i))

\* C10: when pattern[i] occurs and either i is the last position or the first
\* forward extension is empty, smems returns exactly one interval: that of
\* pattern[from..i] for the smallest from such that pattern[from..i] occurs.
C10_EarlyExit ==
    (pc = "done" /\ EdgeCase) =>
        /\ Len(matches) = 1
        /\ MatchStart(1) = LongestStart
        /\ matches[1].match_size = i - LongestStart + 1
        /\ matches[1].size = Cardinality(OccSet(text, Sub(pattern, LongestStart, i)))
        /\ SaSlice(pos, matches[1].lower, matches[1].size)
              = OccSet(text, Sub(pattern, LongestStart, i))

C10_Witness ==
    /\ pc = "done" /\ EdgeCase /\ i < Len(pattern) - 1
    /\ Len(prev) = 2 /\ prev[1] = prev[2]
    /\ Len(matches) = 1 /\ matches[1].size >= 1

====
